---- MODULE Spec2Model ----
(***************************************************************************)
(* Model of the template synchronisation engine,                           *)
(* src/sync_project_template/sync.py: TemplateSyncer and main.             *)
(*                                                                         *)
(* The source template and the target project are modelled as small        *)
(* filesystems: a root (absent, a regular file, or a directory) and, under *)
(* a directory root, one entry per configured sync target.  An entry is    *)
(* absent, a regular file (bytes, mtime) or a directory holding a tree.    *)
(* External git commands and filesystem failures are inputs chosen by the  *)
(* environment.                                                            *)
(***************************************************************************)
EXTENDS Integers, Sequences, FiniteSets, TLC

\* ------------------------------------------------------------------ bounds
MaxBytes == 2       \* file contents are 1..MaxBytes; 0 is a truncated write
MaxMtime == 1       \* modification times are 0..MaxMtime
MaxRuns == 2        \* invocations of main against the same source and target

\* ----------------------------------------------------------- configuration
SYNC_TARGETS == << "tasks", "justfile", ".gitignore", ".python-version" >>

TargetType(target_name) ==
    IF target_name = "tasks" THEN "directory" ELSE "file"

TargetNames == { SYNC_TARGETS[i] : i \in 1..Len(SYNC_TARGETS) }
FileTargets == { n \in TargetNames : TargetType(n) = "file" }

\* ------------------------------------------------------------- filesystem
Absent == [kind |-> "absent", bytes |-> 0, mtime |-> 0, tree |-> {}]
File(b, m) == [kind |-> "file", bytes |-> b, mtime |-> m, tree |-> {}]
Dir(t) == [kind |-> "dir", bytes |-> 0, mtime |-> 0, tree |-> t]

\* Paths below a synced directory.  A tree is a set of nodes; a node with
\* bytes = 0 is a subdirectory, any other node is a regular file.
TreePaths == { << "test.just" >>, << "sub" >>, << "sub", "old.just" >> }
IsSubdirPath(p) == p = << "sub" >>
Node(p, b) == [path |-> p, bytes |-> b]
Prefixes(p) == { SubSeq(p, 1, k) : k \in 1..(Len(p) - 1) }

WellFormedTree(t) ==
    /\ \A n \in t : \A q \in Prefixes(n.path) : Node(q, 0) \in t
    /\ \A n, m \in t : n.path = m.path => n = m
    /\ \A n \in t : IsSubdirPath(n.path) <=> n.bytes = 0

Trees ==
    { t \in SUBSET { Node(p, b) : p \in TreePaths, b \in 0..MaxBytes } :
        WellFormedTree(t) }

\* What is left of tree t when only the paths in keep were reached.
Restrict(t, keep) ==
    { n \in t : n.path \in keep /\ \A q \in Prefixes(n.path) : q \in keep }

\* The fixture of tests/test_sync.py: source_template and target_project.
FixtureTree == { Node(<< "test.just" >>, 1) }
FixtureSource ==
    [n \in TargetNames |-> IF n = "tasks" THEN Dir(FixtureTree) ELSE File(1, 0)]
EmptyProject == [n \in TargetNames |-> Absent]

VARIABLES
    source_root,    \* kind of source_path: "absent", "file" or "dir"
    source,         \* entries of the source template, by target name
    target_root,    \* kind of target_path
    target_git,     \* target_path / '.git' exists
    commits,        \* number of commits in the target repository
    self,           \* the TemplateSyncer: dry_run, changes, the target's
                    \* entries as it leaves them, raised (an OSError escaped)
    twin,           \* the same session run with dry_run negated, fed the
                    \* same environment choices
    pc,             \* position of main/run
    idx,            \* position in the loop over SYNC_TARGETS
    run_no,         \* which invocation of main this is
    target0,        \* target entries when this invocation started
    prev,           \* the previous invocation: changes, target0, synced
    error_kind,     \* the SyncError raised by validate_paths, or "none"
    status_calls,   \* git status invocations in this session
    warned,         \* check_git_clean logged its uncommitted-changes warning
    add_calls,      \* the names git add was invoked with, in order
    commit_calls,   \* git commit invocations in this session
    commit_out,     \* what the git commit of this session did, or "none"
    commits0,       \* commits when this invocation started
    success,        \* value returned by run: "pending", "true", "false"
    summary,        \* what print_summary reported
    main_outcome    \* "running", "return0", "return1", "exception"

vars == << source_root, source, target_root, target_git, commits, self, twin,
           pc, idx, run_no, target0, prev, error_kind, status_calls, warned,
           add_calls, commit_calls, commit_out, commits0, success, summary,
           main_outcome >>

world == << source_root, source, target_root, target_git >>

\* ------------------------------------------------------------ validation
\* validate_paths with the target checked before the source.
validate_paths_TargetFirst ==
    IF target_root = "absent" THEN "TargetNotFound"
    ELSE IF target_root # "dir" THEN "TargetNotDirectory"
    ELSE IF ~target_git THEN "TargetNotGitRepo"
    ELSE IF source_root = "absent" THEN "SourceNotFound"
    ELSE IF source_root # "dir" THEN "SourceNotDirectory"
    ELSE IF source["justfile"].kind = "absent" THEN "SourceInvalidTemplate"
    ELSE "ok"

\* validate_paths: the SyncError it raises, or "ok".
validate_paths ==
    IF source_root = "absent" THEN "SourceNotFound"
    ELSE IF source_root # "dir" THEN "SourceNotDirectory"
    ELSE IF source["justfile"].kind = "absent" THEN "SourceInvalidTemplate"
    ELSE IF target_root = "absent" THEN "TargetNotFound"
    ELSE IF target_root # "dir" THEN "TargetNotDirectory"
    ELSE IF ~target_git THEN "TargetNotGitRepo"
    ELSE "ok"

\* ------------------------------------------------------ change detection
FileChange(relative_path) ==
    [path |-> relative_path, directory |-> FALSE, items |-> 0]
DirChange(relative_path, file_count) ==
    [path |-> relative_path, directory |-> TRUE, items |-> file_count]

\* An OSError raised by the filesystem leaves the session as it is and
\* propagates: nothing in sync.py catches it.
Raise(s) == [s EXCEPT !.raised = TRUE]

\* What the filesystem does to one sync step: at names the call that fails
\* ("none": every call succeeds), keep the tree paths a failing rmtree or
\* copytree had not removed / had already copied, wrote what a failing copy
\* left at the destination.
IOOutcomes ==
    { [at |-> "none", keep |-> {}, wrote |-> "nothing"],
      [at |-> "open", keep |-> {}, wrote |-> "nothing"] }
    \cup { [at |-> "copy2", keep |-> {}, wrote |-> w] :
             w \in {"nothing", "truncated", "bytes"} }
    \cup { [at |-> "rmtree", keep |-> k, wrote |-> "some"] :
             k \in SUBSET TreePaths }
    \cup { [at |-> "copytree", keep |-> k, wrote |-> w] :
             k \in SUBSET TreePaths, w \in {"nothing", "some"} }

\* The destination of a copy2 that raised part way: untouched, truncated, or
\* holding the bytes but not the source's metadata (copystat raised).  A
\* freshly written file carries the latest modification time.
PartialCopy(source_file, target_file, io) ==
    IF io.wrote = "nothing" THEN target_file
    ELSE IF io.wrote = "truncated" THEN File(0, MaxMtime)
    ELSE File(source_file.bytes, MaxMtime)

\* sync_file that copies without comparing the contents first.
SyncFile_AlwaysCopy(s, relative_path, io) ==
    LET source_file == source[relative_path]
        target_file == s.target[relative_path]
    IN  IF source_file.kind = "absent" THEN s
        ELSE IF source_file.kind = "dir" \/ target_file.kind = "dir"
             THEN Raise(s)
        ELSE IF io.at = "copy2"
             THEN Raise([s EXCEPT !.target[relative_path] =
                             PartialCopy(source_file, target_file, io)])
        ELSE [s EXCEPT
                !.target[relative_path] =
                    File(source_file.bytes, source_file.mtime),
                !.changes = Append(@, FileChange(relative_path))]

\* sync_file that takes a file for unchanged only if its modification time
\* matches too.
SyncFile_MtimeDriven(s, relative_path, io) ==
    LET source_file == source[relative_path]
        target_file == s.target[relative_path]
    IN  IF source_file.kind = "absent" THEN s
        ELSE IF /\ target_file.kind # "absent"
                /\ \/ source_file.kind = "dir"
                   \/ target_file.kind = "dir"
                   \/ io.at = "open"
             THEN Raise(s)
        ELSE IF /\ target_file.kind # "absent"
                /\ source_file.bytes = target_file.bytes
                /\ source_file.mtime = target_file.mtime
             THEN s
        ELSE IF source_file.kind = "dir" THEN Raise(s)
        ELSE IF io.at = "copy2"
             THEN Raise([s EXCEPT !.target[relative_path] =
                             PartialCopy(source_file, target_file, io)])
        ELSE [s EXCEPT
                !.target[relative_path] =
                    File(source_file.bytes, source_file.mtime),
                !.changes = Append(@, FileChange(relative_path))]

\* sync_file that, in dry-run mode, records the change without copying.
SyncFile_DryRunSkips(s, relative_path, io) ==
    LET source_file == source[relative_path]
        target_file == s.target[relative_path]
    IN  IF source_file.kind = "absent" THEN s
        ELSE IF /\ target_file.kind # "absent"
                /\ \/ source_file.kind = "dir"
                   \/ target_file.kind = "dir"
                   \/ io.at = "open"
             THEN Raise(s)
        ELSE IF /\ target_file.kind # "absent"
                /\ source_file.bytes = target_file.bytes
             THEN s
        ELSE IF source_file.kind = "dir" THEN Raise(s)
        ELSE IF s.dry_run
             THEN [s EXCEPT !.changes = Append(@, FileChange(relative_path))]
        ELSE IF io.at = "copy2"
             THEN Raise([s EXCEPT !.target[relative_path] =
                             PartialCopy(source_file, target_file, io)])
        ELSE [s EXCEPT
                !.target[relative_path] =
                    File(source_file.bytes, source_file.mtime),
                !.changes = Append(@, FileChange(relative_path))]

\* sync_file that copies the file without recording the change.
SyncFile_NoRecord(s, relative_path, io) ==
    LET source_file == source[relative_path]
        target_file == s.target[relative_path]
    IN  IF source_file.kind = "absent" THEN s
        ELSE IF /\ target_file.kind # "absent"
                /\ \/ source_file.kind = "dir"
                   \/ target_file.kind = "dir"
                   \/ io.at = "open"
             THEN Raise(s)
        ELSE IF /\ target_file.kind # "absent"
                /\ source_file.bytes = target_file.bytes
             THEN s
        ELSE IF source_file.kind = "dir" THEN Raise(s)
        ELSE IF io.at = "copy2"
             THEN Raise([s EXCEPT !.target[relative_path] =
                             PartialCopy(source_file, target_file, io)])
        ELSE [s EXCEPT
                !.target[relative_path] =
                    File(source_file.bytes, source_file.mtime)]

\* sync_file
SyncFile(s, relative_path, io) ==
    LET source_file == source[relative_path]
        target_file == s.target[relative_path]
    IN  IF source_file.kind = "absent" THEN s
        ELSE IF /\ target_file.kind # "absent"
                /\ \/ source_file.kind = "dir"
                   \/ target_file.kind = "dir"
                   \/ io.at = "open"
             THEN Raise(s)
        ELSE IF /\ target_file.kind # "absent"
                /\ source_file.bytes = target_file.bytes
             THEN s
        ELSE IF source_file.kind = "dir" THEN Raise(s)
        ELSE IF io.at = "copy2"
             THEN Raise([s EXCEPT !.target[relative_path] =
                             PartialCopy(source_file, target_file, io)])
        ELSE [s EXCEPT
                !.target[relative_path] =
                    File(source_file.bytes, source_file.mtime),
                !.changes = Append(@, FileChange(relative_path))]

\* sync_directory that copies over the existing directory without removing
\* it first.
SyncDirectory_Merge(s, relative_path, io) ==
    LET source_dir == source[relative_path]
        target_dir == s.target[relative_path]
        paths == { n.path : n \in source_dir.tree }
        merged == source_dir.tree \cup
                  { n \in target_dir.tree : n.path \notin paths }
    IN  IF source_dir.kind = "absent" THEN s
        ELSE IF target_dir.kind = "file" \/ source_dir.kind # "dir"
             THEN Raise(s)
        ELSE IF io.at = "copytree"
             THEN Raise([s EXCEPT !.target[relative_path] =
                             Dir(target_dir.tree \cup
                                 Restrict(source_dir.tree, io.keep))])
        ELSE [s EXCEPT
                !.target[relative_path] = Dir(merged),
                !.changes = Append(@, DirChange(relative_path,
                                                Cardinality(merged)))]

\* sync_directory
SyncDirectory(s, relative_path, io) ==
    LET source_dir == source[relative_path]
        target_dir == s.target[relative_path]
        removed == [s EXCEPT !.target[relative_path] = Absent]
    IN  IF source_dir.kind = "absent" THEN s
        ELSE IF target_dir.kind = "file" THEN Raise(s)
        ELSE IF target_dir.kind = "dir" /\ io.at = "rmtree"
             THEN Raise([s EXCEPT !.target[relative_path] =
                             Dir(Restrict(target_dir.tree, io.keep))])
        ELSE IF source_dir.kind # "dir" THEN Raise(removed)
        ELSE IF io.at = "copytree"
             THEN Raise([removed EXCEPT !.target[relative_path] =
                             IF io.wrote = "nothing" THEN Absent
                             ELSE Dir(Restrict(source_dir.tree, io.keep))])
        ELSE LET copied == [removed EXCEPT !.target[relative_path] =
                                Dir(source_dir.tree)]
                 file_count == Cardinality(copied.target[relative_path].tree)
             IN  [copied EXCEPT
                    !.changes = Append(@, DirChange(relative_path, file_count))]

\* One iteration of the loop of sync_all.
SyncTarget(s, target_name, io) ==
    IF TargetType(target_name) = "directory"
    THEN SyncDirectory(s, target_name, io)
    ELSE SyncFile(s, target_name, io)

\* ------------------------------------------------------- version control
StatusOutcomes == {"clean", "dirty", "nonzero", "missing", "timeout"}
AddOutcomes == {"ok", "nonzero", "missing", "timeout"}
CommitOutcomes == {"ok", "nonzero", "missing", "timeout"}

\* The loop of git_add_changes with the try around the loop: the first
\* missing tool or timeout ends it.
RECURSIVE AddLoop_StopsAtFailure(_, _, _)
AddLoop_StopsAtFailure(i, outs, calls) ==
    IF i > Len(SYNC_TARGETS) THEN calls
    ELSE IF outs[i] \in {"missing", "timeout"}
         THEN Append(calls, SYNC_TARGETS[i])
         ELSE AddLoop_StopsAtFailure(i + 1, outs,
                                     Append(calls, SYNC_TARGETS[i]))

\* The loop of git_add_changes from target i on: the names git add has been
\* invoked with.  outs[i] is what the i-th invocation does.
RECURSIVE AddLoop(_, _, _)
AddLoop(i, outs, calls) ==
    IF i > Len(SYNC_TARGETS) THEN calls
    ELSE IF outs[i] \in {"missing", "timeout"}
         THEN AddLoop(i + 1, outs, Append(calls, SYNC_TARGETS[i]))
         ELSE AddLoop(i + 1, outs, Append(calls, SYNC_TARGETS[i]))

\* git_add_changes that stages even when nothing changed.
GitAddChanges_NoEmptyCheck(s, outs) == AddLoop(1, outs, << >>)

\* git_add_changes
GitAddChanges(s, outs) ==
    IF s.changes = << >> THEN << >> ELSE AddLoop(1, outs, << >>)

\* git_commit that takes a timed-out commit for a finished one.
GitCommit_TimeoutSucceeds(s, out) ==
    IF s.changes = << >>
    THEN [ret |-> FALSE, invoked |-> FALSE, created |-> FALSE]
    ELSE IF s.dry_run
    THEN [ret |-> TRUE, invoked |-> FALSE, created |-> FALSE]
    ELSE [ret |-> out \in {"ok", "timeout"}, invoked |-> TRUE,
          created |-> out = "ok"]

\* git_commit that tests dry_run before it tests for an empty change list.
GitCommit_DryRunFirst(s, out) ==
    IF s.dry_run
    THEN [ret |-> TRUE, invoked |-> FALSE, created |-> FALSE]
    ELSE IF s.changes = << >>
    THEN [ret |-> FALSE, invoked |-> FALSE, created |-> FALSE]
    ELSE [ret |-> out = "ok", invoked |-> TRUE, created |-> out = "ok"]

\* git_commit that commits in dry-run mode too.
GitCommit_IgnoresDryRun(s, out) ==
    IF s.changes = << >>
    THEN [ret |-> FALSE, invoked |-> FALSE, created |-> FALSE]
    ELSE [ret |-> out = "ok", invoked |-> TRUE, created |-> out = "ok"]

\* git_commit: what it returns, whether it invokes git commit, and whether
\* a commit is created.
GitCommit(s, out) ==
    IF s.changes = << >>
    THEN [ret |-> FALSE, invoked |-> FALSE, created |-> FALSE]
    ELSE IF s.dry_run
    THEN [ret |-> TRUE, invoked |-> FALSE, created |-> FALSE]
    ELSE [ret |-> out = "ok", invoked |-> TRUE, created |-> out = "ok"]

\* print_summary
PrintSummary(s) ==
    IF s.changes = << >> THEN "up_to_date"
    ELSE IF ~s.dry_run THEN "committed"
    ELSE "dry_run"

\* ---------------------------------------------------------- initial states
RootKinds == {"absent", "file", "dir"}
Bytes == 1..MaxBytes
Mtimes == 0..MaxMtime

\* Files varied together: template files present or not, project files
\* absent, equal or different, always with another modification time.
PlainSource == {Absent, File(1, 0)}
PlainTarget == {Absent} \cup { File(b, MaxMtime) : b \in Bytes }
\* One entry varied in detail, kinds the configuration does not expect
\* included.
AnyFile == {Absent, Dir({})} \cup { File(b, m) : b \in Bytes, m \in Mtimes }
AnyDir == {Absent, File(1, 0)} \cup { Dir(t) : t \in Trees }

Only(base, name, entry) == [base EXCEPT ![name] = entry]

\* Valid roots, the file targets varied together.
FilesWorlds ==
    { [sroot |-> "dir", troot |-> "dir", git |-> TRUE,
       src |-> [n \in TargetNames |-> IF n = "tasks" THEN d ELSE sf[n]],
       tgt |-> [n \in TargetNames |-> IF n = "tasks" THEN Absent ELSE tf[n]]] :
        d \in {Absent, Dir(FixtureTree)},
        sf \in [FileTargets -> PlainSource],
        tf \in [FileTargets -> PlainTarget] }

\* Valid roots, one file target varied in detail around the test fixture.
OneFileWorlds ==
    { [sroot |-> "dir", troot |-> "dir", git |-> TRUE,
       src |-> Only(FixtureSource, f, se),
       tgt |-> Only(EmptyProject, f, te)] :
        f \in FileTargets, se \in AnyFile, te \in AnyFile }

\* Valid roots, the directory target varied in detail around the fixture.
DirWorlds ==
    { [sroot |-> "dir", troot |-> "dir", git |-> TRUE,
       src |-> Only(FixtureSource, "tasks", se),
       tgt |-> Only(EmptyProject, "tasks", te)] :
        se \in AnyDir, te \in AnyDir }

\* Every shape of the two roots.  Only a directory holds entries.
RootWorlds ==
    { w \in
        { [sroot |-> sr, troot |-> tr, git |-> g,
           src |-> IF sr = "dir" THEN se ELSE EmptyProject,
           tgt |-> IF tr = "dir" THEN te ELSE EmptyProject] :
            sr \in RootKinds, tr \in RootKinds, g \in BOOLEAN,
            se \in {FixtureSource, Only(FixtureSource, "justfile", Absent)},
            te \in {EmptyProject,
                    Only(EmptyProject, ".python-version", File(2, 1)),
                    Only(EmptyProject, "tasks", Dir(FixtureTree))} } :
        w.git => w.troot = "dir" }

Worlds == FilesWorlds \cup OneFileWorlds \cup DirWorlds \cup RootWorlds

\* TemplateSyncer.__init__
NewSyncer(dry_run, entries) ==
    [dry_run |-> dry_run, changes |-> << >>, target |-> entries,
     raised |-> FALSE]

NoPrev == [run |-> 0, changes |-> << >>, synced |-> FALSE]

Init ==
    \E w \in Worlds, d \in BOOLEAN :
        /\ source_root = w.sroot
        /\ source = w.src
        /\ target_root = w.troot
        /\ target_git = w.git
        /\ commits = IF w.git THEN 1 ELSE 0
        /\ commits0 = IF w.git THEN 1 ELSE 0
        /\ self = NewSyncer(d, w.tgt)
        /\ twin = NewSyncer(~d, w.tgt)
        /\ target0 = w.tgt
        /\ prev = NoPrev
        /\ pc = "Validating"
        /\ idx = 1
        /\ run_no = 1
        /\ error_kind = "none"
        /\ status_calls = 0
        /\ warned = FALSE
        /\ add_calls = << >>
        /\ commit_calls = 0
        /\ commit_out = "none"
        /\ success = "pending"
        /\ summary = "none"
        /\ main_outcome = "running"

\* ----------------------------------------------------------------- actions
\* run that queries git status before it validates the paths.
Validate_StatusFirst ==
    /\ pc = "Validating"
    /\ status_calls' = status_calls + 1
    /\ error_kind' = IF validate_paths = "ok" THEN "none" ELSE validate_paths
    /\ IF validate_paths = "ok"
       THEN /\ pc' = "CheckClean"
            /\ UNCHANGED << success, main_outcome >>
       ELSE /\ pc' = "Failed"
            /\ success' = "false"
            /\ main_outcome' = "return1"
    /\ UNCHANGED << world, warned, commits, self, twin, idx, run_no, target0,
                    prev, add_calls, commit_calls, commit_out, commits0,
                    summary >>

\* run: validate_paths, and the except SyncError branch.
Validate ==
    /\ pc = "Validating"
    /\ error_kind' = IF validate_paths = "ok" THEN "none" ELSE validate_paths
    /\ IF validate_paths = "ok"
       THEN /\ pc' = "CheckClean"
            /\ UNCHANGED << success, main_outcome >>
       ELSE /\ pc' = "Failed"
            /\ success' = "false"
            /\ main_outcome' = "return1"
    /\ UNCHANGED << world, warned, commits, self, twin, idx, run_no, target0,
                    prev,
                    status_calls, add_calls, commit_calls, commit_out,
                    commits0, summary >>

\* run: check_git_clean that refuses to sync over uncommitted changes.
CheckGitClean_DirtyAborts ==
    /\ pc = "CheckClean"
    /\ \E out \in StatusOutcomes :
        /\ status_calls' = status_calls + 1
        /\ warned' = (out = "dirty")
        /\ IF out = "dirty"
           THEN /\ pc' = "Failed"
                /\ success' = "false"
                /\ main_outcome' = "return1"
           ELSE /\ pc' = "Syncing"
                /\ UNCHANGED << success, main_outcome >>
        /\ idx' = 1
    /\ UNCHANGED << world, commits, self, twin, run_no, target0, prev,
                    error_kind, add_calls, commit_calls, commit_out, commits0,
                    summary >>

\* run: check_git_clean.  It warns when git status exits with 0 and prints
\* something; a missing git and a timeout are passed over.  Whatever git
\* status does, the session goes on.
CheckGitClean ==
    /\ pc = "CheckClean"
    /\ \E out \in StatusOutcomes :
        /\ status_calls' = status_calls + 1
        /\ warned' = (out = "dirty")
        /\ pc' = "Syncing"
        /\ idx' = 1
    /\ UNCHANGED << world, commits, self, twin, run_no, target0, prev,
                    error_kind, add_calls, commit_calls, commit_out, commits0,
                    success, summary, main_outcome >>

\* sync_all that catches the OSError of one target and goes on to the next.
SyncStep_ContinuesAfterError ==
    /\ pc = "Syncing"
    /\ \E io \in IOOutcomes :
        /\ self' = SyncTarget(self, SYNC_TARGETS[idx], io)
        /\ twin' = SyncTarget(twin, SYNC_TARGETS[idx], io)
    /\ main_outcome' = main_outcome
    /\ IF idx = Len(SYNC_TARGETS)
       THEN pc' = "Staging" /\ idx' = idx
       ELSE pc' = "Syncing" /\ idx' = idx + 1
    /\ UNCHANGED << world, warned, commits, run_no, target0, prev,
                    error_kind, status_calls, add_calls, commit_calls,
                    commit_out, commits0, success, summary >>

\* run: sync_all, one iteration of its loop.  An OSError leaves run and main.
SyncStep ==
    /\ pc = "Syncing"
    /\ \E io \in IOOutcomes :
        /\ self' = SyncTarget(self, SYNC_TARGETS[idx], io)
        /\ twin' = SyncTarget(twin, SYNC_TARGETS[idx], io)
    /\ IF self'.raised
       THEN /\ pc' = "Raised"
            /\ main_outcome' = "exception"
            /\ idx' = idx
       ELSE /\ main_outcome' = main_outcome
            /\ IF idx = Len(SYNC_TARGETS)
               THEN pc' = "Staging" /\ idx' = idx
               ELSE pc' = "Syncing" /\ idx' = idx + 1
    /\ UNCHANGED << world, warned, commits, run_no, target0, prev,
                    error_kind,
                    status_calls, add_calls, commit_calls, commit_out,
                    commits0, success, summary >>

\* run: git_add_changes.
Stage ==
    /\ pc = "Staging"
    /\ \E outs \in [1..Len(SYNC_TARGETS) -> AddOutcomes] :
        add_calls' = GitAddChanges(self, outs)
    /\ pc' = "Committing"
    /\ UNCHANGED << world, warned, commits, self, twin, idx, run_no, target0,
                    prev,
                    error_kind, status_calls, commit_calls, commit_out,
                    commits0, success, summary, main_outcome >>

\* run whose git_commit raises SyncError when the commit fails.
Commit_FailsSession ==
    /\ pc = "Committing"
    /\ \E out \in CommitOutcomes :
        LET r == GitCommit(self, out) IN
        /\ success' = IF r.ret THEN "true" ELSE "false"
        /\ commit_calls' = IF r.invoked THEN commit_calls + 1 ELSE commit_calls
        /\ commit_out' = IF r.invoked THEN out ELSE "none"
        /\ commits' = IF r.created THEN commits + 1 ELSE commits
        /\ IF r.invoked /\ ~r.ret
           THEN pc' = "Failed" /\ main_outcome' = "return1"
           ELSE pc' = "Summary" /\ main_outcome' = main_outcome
    /\ UNCHANGED << world, warned, self, twin, idx, run_no, target0, prev,
                    error_kind, status_calls, add_calls, commits0, summary >>

\* run whose git_commit puts the target back as it was when the commit
\* fails.
Commit_RollsBack ==
    /\ pc = "Committing"
    /\ \E out \in CommitOutcomes :
        LET r == GitCommit(self, out) IN
        /\ success' = IF r.ret THEN "true" ELSE "false"
        /\ commit_calls' = IF r.invoked THEN commit_calls + 1 ELSE commit_calls
        /\ commit_out' = IF r.invoked THEN out ELSE "none"
        /\ commits' = IF r.created THEN commits + 1 ELSE commits
        /\ self' = IF r.invoked /\ ~r.ret
                   THEN [self EXCEPT !.target = target0]
                   ELSE self
    /\ pc' = "Summary"
    /\ UNCHANGED << world, warned, twin, idx, run_no, target0, prev,
                    error_kind, status_calls, add_calls, commits0, summary,
                    main_outcome >>

\* run: git_commit.
Commit ==
    /\ pc = "Committing"
    /\ \E out \in CommitOutcomes :
        LET r == GitCommit(self, out) IN
        /\ success' = IF r.ret THEN "true" ELSE "false"
        /\ commit_calls' = IF r.invoked THEN commit_calls + 1 ELSE commit_calls
        /\ commit_out' = IF r.invoked THEN out ELSE "none"
        /\ commits' = IF r.created THEN commits + 1 ELSE commits
    /\ pc' = "Summary"
    /\ UNCHANGED << world, warned, self, twin, idx, run_no, target0, prev,
                    error_kind,
                    status_calls, add_calls, commits0, summary, main_outcome >>

\* run: print_summary and return success; main: return 0 if success else 1.
Summarise ==
    /\ pc = "Summary"
    /\ summary' = PrintSummary(self)
    /\ main_outcome' = IF success = "true" THEN "return0" ELSE "return1"
    /\ pc' = "Done"
    /\ UNCHANGED << world, warned, commits, self, twin, idx, run_no, target0,
                    prev,
                    error_kind, status_calls, add_calls, commit_calls,
                    commit_out, commits0, success >>

\* The same command is invoked again after a session that ran to its end:
\* a new TemplateSyncer against the source and the target as they are.
NewSession ==
    /\ pc = "Done"
    /\ run_no < MaxRuns
    /\ run_no' = run_no + 1
    /\ prev' = [run |-> run_no, changes |-> self.changes, synced |-> TRUE]
    /\ self' = NewSyncer(self.dry_run, self.target)
    /\ twin' = NewSyncer(~self.dry_run, self.target)
    /\ target0' = self.target
    /\ commits0' = commits
    /\ pc' = "Validating"
    /\ idx' = 1
    /\ error_kind' = "none"
    /\ status_calls' = 0
    /\ warned' = FALSE
    /\ add_calls' = << >>
    /\ commit_calls' = 0
    /\ commit_out' = "none"
    /\ success' = "pending"
    /\ summary' = "none"
    /\ main_outcome' = "running"
    /\ UNCHANGED << world, commits >>

Next ==
    \/ Validate
    \/ CheckGitClean
    \/ SyncStep
    \/ Stage
    \/ Commit
    \/ Summarise
    \/ NewSession

Spec == Init /\ [][Next]_vars

\* ================================================================ properties
Terminal == {"Done", "Failed", "Raised"}
\* sync_all has returned.
PastSync == {"Staging", "Committing", "Summary", "Done"}
\* git_commit has returned.
PastCommit == {"Summary", "Done"}

\* The iteration of sync_all for SYNC_TARGETS[i] has ended in this session,
\* by returning or by raising.
Processed(i) ==
    \/ pc = "Syncing" /\ idx > i
    \/ pc = "Raised" /\ idx >= i
    \/ pc \in PastSync

\* The entry at a target's path holds exactly what the source holds there.
InSync(entries, name) ==
    /\ entries[name].kind = source[name].kind
    /\ entries[name].bytes = source[name].bytes
    /\ entries[name].tree = source[name].tree

\* C1: validate_paths succeeds iff the six checks of the path validator all
\* pass, and otherwise fails with the kind of the first check that is
\* violated, in the order SourceNotFound, SourceNotDirectory,
\* SourceInvalidTemplate, TargetNotFound, TargetNotDirectory,
\* TargetNotGitRepo: a target-shape error never masks a source-shape error.
C1_FirstViolatedCheck ==
    LET checks == << source_root # "absent",
                     source_root = "dir",
                     source_root = "dir" /\ source["justfile"].kind # "absent",
                     target_root # "absent",
                     target_root = "dir",
                     target_root = "dir" /\ target_git >>
        kinds == << "SourceNotFound", "SourceNotDirectory",
                    "SourceInvalidTemplate", "TargetNotFound",
                    "TargetNotDirectory", "TargetNotGitRepo" >>
        violated == { i \in 1..6 : ~checks[i] }
        first == CHOOSE i \in violated : \A j \in violated : i <= j
    IN  pc # "Validating" =>
            /\ (error_kind = "none") <=> (violated = {})
            /\ (pc = "Failed") <=> (violated # {})
            /\ violated # {} => error_kind = kinds[first]

\* C1 witness: a source that is not a directory and a target that does not
\* exist: validation has failed with the source's error.
C1_Witness ==
    /\ pc = "Failed"
    /\ source_root = "file"
    /\ target_root = "absent"
    /\ error_kind = "SourceNotDirectory"

\* C3: run returns true only if validation passed, sync_all completed and
\* the commit step (a commit, or the dry-run preview) succeeded; it returns
\* false after every validation failure, with no target entry touched, and
\* after every failed commit (nonzero exit, missing tool, timeout), with the
\* synced entries still in place.
C3_RunReturnContract ==
    /\ success = "true" =>
          /\ validate_paths = "ok" /\ error_kind = "none"
          /\ pc \in PastCommit /\ ~self.raised
          /\ \A n \in TargetNames : source[n].kind # "absent" =>
                 InSync(self.target, n)
          /\ \/ self.dry_run /\ commit_calls = 0
             \/ ~self.dry_run /\ commit_out = "ok" /\ commits = commits0 + 1
    /\ (pc # "Validating" /\ validate_paths # "ok") =>
          /\ pc = "Failed" /\ success = "false"
          /\ self.target = target0 /\ self.changes = << >>
    /\ (pc \in PastCommit /\ commit_out \in {"nonzero", "missing", "timeout"}) =>
          /\ success = "false"
          /\ self.changes # << >>
          /\ \A i \in 1..Len(self.changes) :
                 InSync(self.target, self.changes[i].path)

\* C3 witness: a session whose commit timed out has returned false with the
\* entries it synced in place.
C3_Witness ==
    /\ pc = "Done"
    /\ success = "false"
    /\ commit_out = "timeout"
    /\ self.target # target0
    /\ Len(self.changes) >= 2

\* C5: with an empty change list git_commit returns false and git commit is
\* not invoked, in dry-run mode and otherwise.
C5_EmptyChangesNoCommit ==
    (pc \in PastCommit /\ self.changes = << >>) =>
        /\ success = "false"
        /\ commit_calls = 0
        /\ commit_out = "none"
        /\ commits = commits0

\* C5 witness: a dry-run session that changed nothing has been through
\* git_commit.
C5_Witness ==
    /\ pc = "Done"
    /\ self.dry_run
    /\ self.changes = << >>
    /\ success = "false"

\* C6: in dry-run mode git commit is never invoked and the repository's
\* commit count stays what it was, and with a nonempty change list
\* git_commit returns true.
C6_DryRunNeverCommits ==
    self.dry_run =>
        /\ commit_calls = 0
        /\ commit_out = "none"
        /\ commits = commits0
        /\ (pc \in PastCommit /\ self.changes # << >>) => success = "true"

\* C6 witness: a dry-run session with changes has ended, reporting success,
\* with the target's entries changed.
C6_Witness ==
    /\ pc = "Done"
    /\ self.dry_run
    /\ self.changes # << >>
    /\ self.target # target0
    /\ success = "true"
    /\ commits = commits0

C4_MainAlwaysReturns ==
    /\ main_outcome # "exception"
    /\ pc \in Terminal =>
          /\ main_outcome \in {"return0", "return1"}
          /\ (main_outcome = "return0") <=> (success = "true")
          /\ self.raised => main_outcome = "return1"

\* C7: the dry-run flag has no bearing on synchronisation: the session run
\* with the flag negated, from the same source and target and under the same
\* filesystem behaviour, leaves the same target entries and the same change
\* list.
C7_DryRunDoesNotAffectSync ==
    /\ twin.dry_run = ~self.dry_run
    /\ twin.target = self.target
    /\ twin.changes = self.changes
    /\ twin.raised = self.raised

\* C7 witness: sync_all has returned in a dry-run session that rewrote
\* target entries.
C7_Witness ==
    /\ pc = "Staging"
    /\ self.dry_run /\ ~twin.dry_run
    /\ Len(self.changes) >= 2
    /\ self.target # target0
    /\ twin.target = self.target

\* C8: when sync_directory returns on a path whose source directory exists,
\* no entry that only the target's earlier copy held is left, every entry of
\* the source's copy is there with the source's bytes, and one change record
\* with the number of entries copied (files and subdirectories) was
\* appended.
C8_DirectoryReplaced ==
    LET src_tree == source["tasks"].tree
        old_tree == target0["tasks"].tree
        new_tree == self.target["tasks"].tree
        src_paths == { n.path : n \in src_tree }
    IN  (pc = "Syncing" /\ idx = 2 /\ source["tasks"].kind = "dir") =>
            /\ self.target["tasks"].kind = "dir"
            /\ \A n \in old_tree :
                   n.path \notin src_paths =>
                       \A m \in new_tree : m.path # n.path
            /\ \A n \in src_tree : n \in new_tree
            /\ self.changes =
                   << DirChange("tasks", Cardinality(src_tree)) >>

\* C8 witness: sync_directory has returned where the target held an entry
\* the source lacks and the source held entries, a subdirectory among them,
\* that the target lacked.
C8_Witness ==
    LET src_tree == source["tasks"].tree
        old_tree == target0["tasks"].tree
    IN  /\ pc = "Syncing" /\ idx = 2
        /\ source["tasks"].kind = "dir" /\ target0["tasks"].kind = "dir"
        /\ \E n \in old_tree : \A m \in src_tree : m.path # n.path
        /\ \E m \in src_tree : m.bytes = 0 /\ m \notin old_tree
        /\ self.changes = << DirChange("tasks", 2) >>

\* C9: when sync_file is called on a path whose target file holds the bytes
\* of the source file, whatever its modification time, no change record is
\* appended and the target file is not written.
C9_UnchangedFileSkipped ==
    \A i \in 1..Len(SYNC_TARGETS) :
        LET f == SYNC_TARGETS[i] IN
        ( /\ TargetType(f) = "file" /\ Processed(i)
          /\ source[f].kind = "file" /\ target0[f].kind = "file"
          /\ source[f].bytes = target0[f].bytes ) =>
            /\ self.target[f] = target0[f]
            /\ \A k \in 1..Len(self.changes) : self.changes[k].path # f

\* C9 witness: sync_file has returned on a target file with the source's
\* bytes and another modification time.
C9_Witness ==
    /\ pc = "Syncing" /\ idx = 3
    /\ source["justfile"].kind = "file" /\ target0["justfile"].kind = "file"
    /\ source["justfile"].bytes = target0["justfile"].bytes
    /\ source["justfile"].mtime # target0["justfile"].mtime
    /\ self.target["justfile"] = target0["justfile"]

\* C10 as claimed: whenever sync_directory has ended, by returning or by
\* raising, the target subtree is a copy of the source subtree or is what it
\* was: it is never left deleted, partly copied or merged.
C10_DirectoryAllOrNothing ==
    Processed(1) =>
        \/ InSync(self.target, "tasks")
        \/ self.target["tasks"] = target0["tasks"]


\* The iteration of sync_all for SYNC_TARGETS[i] has returned in this
\* session.
Returned(i) ==
    \/ pc \in {"Syncing", "Raised"} /\ idx > i
    \/ pc \in PastSync

\* The spec's session states.  The cleanliness check comes before Syncing,
\* the summary before Done; a session ended by a SyncError or by an OSError
\* has failed.
Phase ==
    CASE pc \in {"Validating", "CheckClean"} -> "Validating"
      [] pc = "Syncing" -> "Syncing"
      [] pc = "Staging" -> "Staging"
      [] pc \in {"Committing", "Summary"} -> "Committing"
      [] pc = "Done" -> "Done"
      [] pc \in {"Failed", "Raised"} -> "Failed"

\* C11: when sync_file returns on a path whose source file exists and whose
\* target file was absent or held other bytes, the target file exists with
\* the bytes of the source file and the change list holds exactly one record
\* of that path.
C11_ChangedFileCopied ==
    \A i \in 1..Len(SYNC_TARGETS) :
        LET f == SYNC_TARGETS[i] IN
        ( /\ TargetType(f) = "file" /\ Returned(i)
          /\ source[f].kind = "file"
          /\ \/ target0[f].kind = "absent"
             \/ /\ target0[f].kind = "file"
                /\ target0[f].bytes # source[f].bytes ) =>
            /\ self.target[f].kind = "file"
            /\ self.target[f].bytes = source[f].bytes
            /\ Cardinality({ k \in 1..Len(self.changes) :
                               self.changes[k] = FileChange(f) }) = 1
            /\ \A k \in 1..Len(self.changes) :
                   self.changes[k].path = f => self.changes[k] = FileChange(f)

\* C11 witness: sync_file has returned on .gitignore, which the target held
\* with other bytes, and on justfile, which the target lacked.
C11_Witness ==
    /\ pc = "Syncing" /\ idx = 4
    /\ source[".gitignore"].kind = "file"
    /\ target0[".gitignore"].kind = "file"
    /\ target0[".gitignore"].bytes # source[".gitignore"].bytes
    /\ target0["justfile"].kind = "absent"
    /\ self.target[".gitignore"].bytes = source[".gitignore"].bytes
    /\ self.changes = << FileChange("justfile"), FileChange(".gitignore") >>

\* C12: a session goes through Validating, Syncing, Staging, Committing and
\* Done in that order; it fails only out of Validating or Syncing; once it
\* is Staging it reaches Done, a failed commit showing only in the value run
\* returns.
C12_SessionStateSequence ==
    /\ [][ \/ Phase' = Phase
           \/ << Phase, Phase' >> \in
                 { << "Validating", "Syncing" >>, << "Syncing", "Staging" >>,
                   << "Staging", "Committing" >>, << "Committing", "Done" >>,
                   << "Validating", "Failed" >>, << "Syncing", "Failed" >>,
                   << "Done", "Validating" >> } ]_vars
    /\ [](pc = "Failed" => validate_paths # "ok")
    /\ [](pc = "Raised" => self.raised)
    /\ []((pc = "Done" /\ commit_out \in {"nonzero", "missing", "timeout"})
             => success = "false")
    /\ (pc = "Staging") ~> (pc = "Done")

\* C12 witness: a session whose commit failed has reached Done.
C12_Witness ==
    /\ pc = "Done"
    /\ commit_out = "nonzero"
    /\ success = "false"
    /\ add_calls = SYNC_TARGETS

\* C13: until validate_paths has succeeded no target entry is created,
\* removed or rewritten and no git command is invoked; a session whose
\* validation fails ends with the target as it was and no command invoked.
C13_ValidationGatesEverything ==
    LET untouched ==
            /\ self.target = target0
            /\ self.changes = << >>
            /\ status_calls = 0
            /\ add_calls = << >>
            /\ commit_calls = 0
            /\ commits = commits0
    IN  /\ pc \in {"Validating", "Failed"} => untouched
        /\ ~untouched => validate_paths = "ok"
        /\ (pc # "Validating" /\ validate_paths # "ok") => pc = "Failed"

\* C13 witness: validation has failed on a target that is not a git
\* repository and holds a file the source would have replaced.
C13_Witness ==
    /\ pc = "Failed"
    /\ error_kind = "TargetNotGitRepo"
    /\ target0[".python-version"].kind = "file"
    /\ source[".python-version"].kind = "file"
    /\ target0[".python-version"].bytes # source[".python-version"].bytes
    /\ self.target = target0
    /\ status_calls = 0

\* The session under the scheduling of a sequential program: run goes on to
\* its next statement; every git command ends or times out.
FairSpec == Spec /\ WF_vars(Next)

C15_CommitFailureKeepsFiles ==
    [][(pc \in {"Staging", "Committing", "Summary"}) =>
          (self'.target = self.target /\ self'.changes = self.changes)]_vars

\* C15 witness: git_commit has returned false for a missing git in a session
\* that synced entries, and they are in place.
C15_Witness ==
    /\ pc = "Summary"
    /\ ~self.dry_run
    /\ commit_out = "missing"
    /\ success = "false"
    /\ Len(self.changes) >= 2
    /\ self.target # target0
    /\ \A n \in TargetNames : source[n].kind # "absent" => InSync(self.target, n)

\* C16: the cleanliness check is advisory: whatever git status does (clean,
\* dirty, nonzero exit, missing, timeout) the session goes on to Syncing with
\* the target entries, the change list and the pending result as they were,
\* so that nothing later depends on the outcome; a warned session ends as it
\* would have unwarned.
C16_CleanCheckAdvisory ==
    /\ [][pc = "CheckClean" =>
            ( /\ pc' = "Syncing" /\ idx' = 1
              /\ self' = self /\ twin' = twin
              /\ success' = success /\ main_outcome' = main_outcome
              /\ commits' = commits
              /\ add_calls' = add_calls /\ commit_calls' = commit_calls )]_vars
    /\ [][pc # "CheckClean" => (warned' = warned \/ pc = "Done")]_vars
    /\ [](pc \in {"Validating", "CheckClean"} => ~warned)
    /\ [](pc \in PastSync =>
             \A n \in TargetNames :
                 /\ source[n].kind = "absent" => self.target[n] = target0[n]
                 /\ source[n].kind # "absent" => InSync(self.target, n)
                 /\ (\E k \in 1..Len(self.changes) : self.changes[k].path = n)
                        <=> \/ source[n].kind = "dir"
                            \/ /\ source[n].kind = "file"
                               /\ target0[n].bytes # source[n].bytes)
    /\ [](pc \in PastCommit =>
             ((success = "true") <=>
                  /\ self.changes # << >>
                  /\ (self.dry_run \/ commit_out = "ok")))

\* C16 witness: a session that was warned of uncommitted changes has synced
\* and committed.
C16_Witness ==
    /\ pc = "Done"
    /\ warned
    /\ status_calls = 1
    /\ success = "true"
    /\ commit_out = "ok"
    /\ self.target # target0

\* C17 as claimed: git_add_changes invokes git add once for each configured
\* target, in declaration order, whichever targets produced a change record,
\* and the session goes on to the commit step.
C17_StageAddsEveryTarget ==
    /\ [](pc \in {"Committing", "Summary", "Done"} => add_calls = SYNC_TARGETS)
    /\ [][pc = "Staging" => pc' = "Committing"]_vars

\* C17 amended: with a nonempty change list git_add_changes invokes git add
\* once for each configured target, in declaration order, whichever targets
\* produced a change record and whatever each git add does (a missing tool
\* and a timeout included); with an empty change list it invokes none; either
\* way the session goes on to the commit step.
C17_StageAddsEveryTargetAmended ==
    /\ [](pc \in {"Committing", "Summary", "Done"} =>
             add_calls = IF self.changes = << >> THEN << >> ELSE SYNC_TARGETS)
    /\ [](pc \in {"Validating", "CheckClean", "Syncing", "Staging"} =>
             add_calls = << >>)
    /\ [][pc = "Staging" => pc' = "Committing"]_vars

\* C17 witness: one target produced a change record and git add was invoked
\* for all four, in declaration order.
C17_Witness ==
    /\ pc = "Committing"
    /\ self.changes = << FileChange(".python-version") >>
    /\ add_calls = << "tasks", "justfile", ".gitignore", ".python-version" >>

\* C18: a session that passes validation and leaves sync_all with an empty
\* change list invokes neither git add nor git commit, run returns false and
\* main returns 1, in dry-run mode and otherwise.
C18_NothingToSyncExitsOne ==
    (pc \in PastSync /\ self.changes = << >>) =>
        /\ validate_paths = "ok"
        /\ add_calls = << >>
        /\ commit_calls = 0
        /\ success # "true"
        /\ pc \in PastCommit => success = "false"
        /\ pc = "Done" => main_outcome = "return1"

\* C18 witness: a session, not a dry run, whose target already matched a
\* source without a tasks directory has ended with exit code 1.
C18_Witness ==
    /\ pc = "Done"
    /\ ~self.dry_run
    /\ self.changes = << >>
    /\ status_calls = 1
    /\ source["tasks"].kind = "absent"
    /\ \A f \in FileTargets : source[f].kind = "file" /\ InSync(target0, f)
    /\ main_outcome = "return1"

\* C19 as claimed: print_summary reports "Changes committed to git" only
\* when git commit was invoked in the session and succeeded.
C19_SummaryTruthful ==
    summary = "committed" => (commit_calls >= 1 /\ commit_out = "ok")

====
